---- MODULE Spec2Model ----
(***************************************************************************)
(* Host-authoritative replicated state machine of the CodeNames game.      *)
(* The model follows the hint-based host (src/unnamed/part_002), the board *)
(* generator and win evaluator (src/unnamed/part_003) and the data types   *)
(* (src/types.ts).                                                         *)
(*                                                                         *)
(* JS arrays are 0-based; cards and players are TLA+ sequences, so the JS  *)
(* index i is position i + 1.  null is the string "null"; a nullable hint  *)
(* is a sequence of length 0 (null) or 1.  The lastUpdate timestamp of     *)
(* GameState is not modelled: no handler reads it.                         *)
(***************************************************************************)
EXTENDS Integers, Sequences, FiniteSets, TLC

\* ------------------------------------------------------------------ bounds

\* Largest hint count a spymaster sends (the UI offers 1..9).
MaxHintCount == 1
\* Messages in flight from the host to one client.
MaxQueue == 2

\* Largest card set getWinner is run on by itself.
MaxCards == 3

\* Remote peers that may connect to the host.
ClientIds == {"c1", "c2", "c3"}
\* Outcomes of Math.random() that generateBoard is run on.
Seeds == {1, 2}
\* Clue words carried by ACTION_SUBMIT_HINT.
HintWords == {"clue"}
\* Words of RAW_WORD_LIST, after the split/trim/filter of generateBoard.
WordPool == [i \in 1 .. 30 |-> i]

\* ------------------------------------------------------- program constants

GRID_SIZE == 25
StartingTeamCards == 9
SecondTeamCards == 8
AssassinCards == 1
NeutralCards == 7

Null == "null"
Undefined == "undefined"
UndefinedWord == 0
Host == "h"
PeerIds == {Host} \cup ClientIds

INITIAL_STATE ==
  [status |-> "lobby", cards |-> <<>>, currentTurn |-> "red",
   startingTeam |-> "red", turnPhase |-> "hinting", currentHint |-> <<>>,
   guessesMade |-> 0, winner |-> Null]

VARIABLES
  players,       \* host React state: the roster (latest value set)
  gameState,     \* host React state: the GameState (latest value set)
  playersRef,    \* playersRef.current, what the handlers read
  gameStateRef,  \* gameStateRef.current, what the handlers read
  connections,   \* connectionsRef.current: peers of the open connections
  joining,       \* clients whose JOIN_REQUEST, sent on open, is in flight
  chan,          \* per client, the messages in flight from the host
  cPlayers,      \* per client, its replica of the roster
  cGameState,    \* per client, its replica of the GameState
  last           \* the last event the host handled, and whether it broadcast

vars == <<players, gameState, playersRef, gameStateRef, connections, joining,
          chan, cPlayers, cGameState, last>>

\* ---------------------------------------------------------- board generator

\* A Fisher-Yates shuffle yields a permutation of its input; the random
\* outcome `seed` selects the rotation by 7 * (seed - 1) places.
Shuffle(a, seed) ==
  [i \in 1 .. Len(a) |-> a[((i - 1 + 7 * (seed - 1)) % Len(a)) + 1]]

Fill(n, v) == [i \in 1 .. n |-> v]

Slice(a, n) == [i \in 1 .. (IF Len(a) < n THEN Len(a) ELSE n) |-> a[i]]

\* generateBoard on the words that split/trim/filter leave of the word list.
generateBoardOn(words, seed) ==
  LET allWords == Shuffle(words, seed)
      selectedWords == Slice(allWords, GRID_SIZE)
      startingTeam == IF seed % 2 = 1 THEN "red" ELSE "blue"
      secondTeam == IF startingTeam = "red" THEN "blue" ELSE "red"
      types == Shuffle(Fill(StartingTeamCards, startingTeam)
                       \o Fill(SecondTeamCards, secondTeam)
                       \o Fill(AssassinCards, "assassin")
                       \o Fill(NeutralCards, "neutral"), seed)
  IN [cards |-> [index \in 1 .. Len(selectedWords) |->
                   [word |-> selectedWords[index],
                    type |-> IF index <= Len(types) THEN types[index]
                             ELSE Undefined,
                    revealed |-> FALSE]],
      startingTeam |-> startingTeam]

generateBoard(seed) == generateBoardOn(WordPool, seed)

\* ------------------------------------------------------------ win evaluator

\* A faulty evaluator, which looks at the teams' cards before the assassin.
getWinnerAssassinLast(cards, currentTurn) ==
  LET left(t) == {i \in DOMAIN cards :
                    cards[i].type = t /\ ~cards[i].revealed}
      assassinRevealed ==
        \E i \in DOMAIN cards :
          cards[i].type = "assassin" /\ cards[i].revealed
  IN IF left("red") = {} THEN "red"
     ELSE IF left("blue") = {} THEN "blue"
     ELSE IF assassinRevealed
       THEN (IF currentTurn = "red" THEN "blue" ELSE "red")
     ELSE Null

getWinner(cards, currentTurn) ==
  LET redCardsLeft ==
        Cardinality({i \in DOMAIN cards :
                       cards[i].type = "red" /\ ~cards[i].revealed})
      blueCardsLeft ==
        Cardinality({i \in DOMAIN cards :
                       cards[i].type = "blue" /\ ~cards[i].revealed})
      assassinRevealed ==
        \E i \in DOMAIN cards :
          cards[i].type = "assassin" /\ cards[i].revealed
  IN IF assassinRevealed
       THEN (IF currentTurn = "red" THEN "blue" ELSE "red")
       ELSE IF redCardsLeft = 0 THEN "red"
       ELSE IF blueCardsLeft = 0 THEN "blue"
       ELSE Null

\* ------------------------------------------------------------ host helpers

\* Array.prototype.find on the roster: the first entry with this id, as a
\* sequence of length 0 (undefined) or 1.
find(ps, id) ==
  LET hits == {i \in DOMAIN ps : ps[i].id = id}
  IN IF hits = {} THEN <<>>
     ELSE <<ps[CHOOSE i \in hits : \A j \in hits : i <= j]>>

\* ps.filter(p => p.id !== playerId)
filter(ps, playerId) ==
  LET F[i \in 0 .. Len(ps)] ==
        IF i = 0 THEN <<>>
        ELSE IF ps[i].id # playerId THEN Append(F[i - 1], ps[i])
        ELSE F[i - 1]
  IN F[Len(ps)]

\* What one run of a handler does: whether it reached broadcast, the roster
\* and GameState it passed to broadcast, and whether each is an object other
\* than the ref's current one (and is therefore handed to setPlayers /
\* setGameState).
Dropped ==
  [bcast |-> FALSE, players |-> playersRef, state |-> gameStateRef,
   setPlayers |-> FALSE, setState |-> FALSE]

broadcast(currentPlayers, currentGameState, newRoster, newState) ==
  [bcast |-> TRUE, players |-> currentPlayers, state |-> currentGameState,
   setPlayers |-> newRoster, setState |-> newState]

\* { ...p, ...updates }
Spread(p, updates) ==
  [f \in DOMAIN p |-> IF f \in DOMAIN updates THEN updates[f] ELSE p[f]]

updatePlayer(playerId, updates) ==
  LET newPlayers ==
        [i \in DOMAIN playersRef |->
           IF playersRef[i].id = playerId
             THEN Spread(playersRef[i], updates)
             ELSE playersRef[i]]
  IN broadcast(newPlayers, gameStateRef, TRUE, FALSE)

\* A faulty start, which leaves the first turn to red whoever starts.
startGameRedFirst(seed) ==
  LET board == generateBoard(seed)
      newState == [INITIAL_STATE EXCEPT
                     !.status = "playing",
                     !.cards = board.cards,
                     !.startingTeam = board.startingTeam]
  IN broadcast(playersRef, newState, FALSE, TRUE)

startGame(seed) ==
  LET board == generateBoard(seed)
      newState == [INITIAL_STATE EXCEPT
                     !.status = "playing",
                     !.cards = board.cards,
                     !.startingTeam = board.startingTeam,
                     !.currentTurn = board.startingTeam,
                     !.turnPhase = "hinting",
                     !.currentHint = <<>>,
                     !.guessesMade = 0,
                     !.winner = Null]
  IN broadcast(playersRef, newState, FALSE, TRUE)

\* A faulty reset, which spreads the initial state under the old winner.
resetKeepingWinner ==
  broadcast(playersRef,
            [INITIAL_STATE EXCEPT !.winner = gameStateRef.winner],
            FALSE, TRUE)

\* A faulty reset, which leaves the board on the table.
resetKeepingBoard ==
  broadcast(playersRef,
            [INITIAL_STATE EXCEPT !.cards = gameStateRef.cards],
            FALSE, TRUE)

resetGameHost == broadcast(playersRef, INITIAL_STATE, FALSE, TRUE)

\* A faulty hint handler, which hears every player of the team in turn.
submitHintAnyRole(word, count, playerId) ==
  LET player == find(playersRef, playerId)
      currentState == gameStateRef
  IN IF player = <<>> \/ player[1].team # currentState.currentTurn
       THEN Dropped
     ELSE IF currentState.turnPhase # "hinting" THEN Dropped
     ELSE broadcast(playersRef,
                    [currentState EXCEPT
                       !.turnPhase = "guessing",
                       !.currentHint = <<[word |-> word, count |-> count]>>,
                       !.guessesMade = 0],
                    FALSE, TRUE)

submitHintHost(word, count, playerId) ==
  LET player == find(playersRef, playerId)
      currentState == gameStateRef
  IN IF \/ player = <<>>
        \/ player[1].team # currentState.currentTurn
        \/ player[1].role # "spymaster"
       THEN Dropped
     ELSE IF currentState.turnPhase # "hinting" THEN Dropped
     ELSE broadcast(playersRef,
                    [currentState EXCEPT
                       !.turnPhase = "guessing",
                       !.currentHint = <<[word |-> word, count |-> count]>>,
                       !.guessesMade = 0],
                    FALSE, TRUE)

\* newCards[index] = { ...newCards[index], revealed: true } on a copy of the
\* cards: an index inside the array replaces that card, the index equal to
\* the length appends { revealed: true }, and a negative index sets a
\* property that is no element of the array (and is gone with the next
\* copy).  Indexes beyond the length are not among the inputs.
SetRevealed(cards, index) ==
  IF index >= 0 /\ index < Len(cards)
    THEN [cards EXCEPT ![index + 1].revealed = TRUE]
  ELSE IF index = Len(cards)
    THEN Append(cards, [word |-> UndefinedWord, type |-> Undefined,
                        revealed |-> TRUE])
  ELSE cards

\* A faulty read of the revealed card, one position off.
RevealedTypeShifted(cards, index) ==
  IF index >= 1 /\ index <= Len(cards) THEN cards[index].type
  ELSE Undefined

RevealedType(cards, index) ==
  IF index >= 0 /\ index < Len(cards) THEN cards[index + 1].type
  ELSE Undefined

\* A faulty status, which forgets the end of the game.
StatusLeftPlaying(winner) == "playing"

\* winner ? (winner === 'red' ? 'red_win' : 'blue_win') : 'playing'
StatusOf(winner) ==
  IF winner # Null THEN (IF winner = "red" THEN "red_win" ELSE "blue_win")
  ELSE "playing"

\* A faulty guess limit, which lets one guess more through.
LimitReachedLate(currentHint, nextGuessesMade) ==
  /\ currentHint # <<>>
  /\ nextGuessesMade > currentHint[1].count + 1

\* currentState.currentHint && nextGuessesMade >= currentHint.count + 1
LimitReached(currentHint, nextGuessesMade) ==
  /\ currentHint # <<>>
  /\ nextGuessesMade >= currentHint[1].count + 1

\* A faulty validation, which lets every player of the team in turn reveal.
revealDeniedByTeam(player, currentState) ==
  \/ player = <<>>
  \/ player[1].team # currentState.currentTurn

\* !player || player.team !== currentState.currentTurn
\*         || player.role !== 'operative'
revealDenied(player, currentState) ==
  \/ player = <<>>
  \/ player[1].team # currentState.currentTurn
  \/ player[1].role # "operative"

\* A faulty re-check, which trusts the branch on the card's type.
RecheckSkipped(winner, newCards, currentTurn) == winner

\* if (!winner) winner = getWinner(newCards, currentState.currentTurn)
Recheck(winner, newCards, currentTurn) ==
  IF winner = Null THEN getWinner(newCards, currentTurn) ELSE winner

handleCardClickHost(index, playerId) ==
  LET player == find(playersRef, playerId)
      currentState == gameStateRef
      newCards == SetRevealed(currentState.cards, index)
      revealedType == RevealedType(currentState.cards, index)
      own == /\ revealedType # "assassin"
             /\ revealedType # "neutral"
             /\ revealedType = currentState.currentTurn
      incremented == currentState.guessesMade + 1
      potentialWinner == getWinner(newCards, currentState.currentTurn)
      winner1 ==
        IF revealedType = "assassin"
          THEN (IF currentState.currentTurn = "red" THEN "blue" ELSE "red")
        ELSE IF own /\ potentialWinner # Null THEN potentialWinner
        ELSE currentState.winner
      shouldEndTurn ==
        IF revealedType = "assassin" THEN FALSE
        ELSE IF revealedType = "neutral" THEN TRUE
        ELSE IF revealedType # currentState.currentTurn THEN TRUE
        ELSE /\ potentialWinner = Null
             /\ LimitReached(currentState.currentHint, incremented)
      guesses1 == IF own THEN incremented ELSE currentState.guessesMade
      winner == Recheck(winner1, newCards, currentState.currentTurn)
      endTurn == shouldEndTurn /\ winner = Null
  IN IF revealDenied(player, currentState) THEN Dropped
     ELSE IF currentState.turnPhase # "guessing" THEN Dropped
     ELSE broadcast(playersRef,
            [currentState EXCEPT
               !.cards = newCards,
               !.currentTurn =
                 IF endTurn
                   THEN (IF currentState.currentTurn = "red" THEN "blue"
                         ELSE "red")
                   ELSE currentState.currentTurn,
               !.turnPhase = IF endTurn THEN "hinting"
                             ELSE currentState.turnPhase,
               !.currentHint = IF endTurn THEN <<>>
                               ELSE currentState.currentHint,
               !.guessesMade = IF endTurn THEN 0 ELSE guesses1,
               !.winner = winner,
               !.status = StatusOf(winner)],
            FALSE, TRUE)

\* A faulty end of turn, which passes the turn and keeps the guess count.
endTurnKeepingGuesses(playerId) ==
  LET player == find(playersRef, playerId)
      currentState == gameStateRef
      nextTurn == IF currentState.currentTurn = "red" THEN "blue" ELSE "red"
  IN IF player = <<>> \/ player[1].team # currentState.currentTurn
       THEN Dropped
     ELSE IF currentState.turnPhase # "guessing" THEN Dropped
     ELSE broadcast(playersRef,
                    [currentState EXCEPT
                       !.currentTurn = nextTurn,
                       !.turnPhase = "hinting",
                       !.currentHint = <<>>],
                    FALSE, TRUE)

\* A faulty end of turn, which any player of the roster may ask for.
endTurnAnyTeam(playerId) ==
  LET player == find(playersRef, playerId)
      currentState == gameStateRef
      nextTurn == IF currentState.currentTurn = "red" THEN "blue" ELSE "red"
  IN IF player = <<>> THEN Dropped
     ELSE IF currentState.turnPhase # "guessing" THEN Dropped
     ELSE broadcast(playersRef,
                    [currentState EXCEPT
                       !.currentTurn = nextTurn,
                       !.turnPhase = "hinting",
                       !.currentHint = <<>>,
                       !.guessesMade = 0],
                    FALSE, TRUE)

\* A faulty end of turn, which does not look at the phase.
endTurnAnyPhase(playerId) ==
  LET player == find(playersRef, playerId)
      currentState == gameStateRef
      nextTurn == IF currentState.currentTurn = "red" THEN "blue" ELSE "red"
  IN IF player = <<>> \/ player[1].team # currentState.currentTurn
       THEN Dropped
     ELSE broadcast(playersRef,
                    [currentState EXCEPT
                       !.currentTurn = nextTurn,
                       !.turnPhase = "hinting",
                       !.currentHint = <<>>,
                       !.guessesMade = 0],
                    FALSE, TRUE)

endTurnHost(playerId) ==
  LET player == find(playersRef, playerId)
      currentState == gameStateRef
      nextTurn == IF currentState.currentTurn = "red" THEN "blue" ELSE "red"
  IN IF player = <<>> \/ player[1].team # currentState.currentTurn
       THEN Dropped
     ELSE IF currentState.turnPhase # "guessing" THEN Dropped
     ELSE broadcast(playersRef,
                    [currentState EXCEPT
                       !.currentTurn = nextTurn,
                       !.turnPhase = "hinting",
                       !.currentHint = <<>>,
                       !.guessesMade = 0],
                    FALSE, TRUE)

\* ----------------------------------------------------------------- routing

\* A faulty join, which seats a player who joins again as a new one.
joinRequestReseat(name, senderId) ==
  LET newPlayer == [id |-> senderId, name |-> name, team |-> "spectator",
                    role |-> "operative", isHost |-> FALSE]
      currentPlayers ==
        IF find(playersRef, newPlayer.id) = <<>>
          THEN Append(playersRef, newPlayer)
          ELSE [i \in DOMAIN playersRef |->
                  IF playersRef[i].id = newPlayer.id THEN newPlayer
                  ELSE playersRef[i]]
  IN broadcast(currentPlayers, gameStateRef, TRUE, FALSE)

\* A faulty join, which updates the host's roster and tells no one.
joinRequestQuiet(name, senderId) ==
  LET newPlayer == [id |-> senderId, name |-> name, team |-> "spectator",
                    role |-> "operative", isHost |-> FALSE]
      currentPlayers ==
        IF find(playersRef, newPlayer.id) = <<>>
          THEN Append(playersRef, newPlayer)
          ELSE [i \in DOMAIN playersRef |->
                  IF playersRef[i].id = newPlayer.id
                    THEN [playersRef[i] EXCEPT !.name = newPlayer.name]
                    ELSE playersRef[i]]
  IN [bcast |-> FALSE, players |-> currentPlayers, state |-> gameStateRef,
      setPlayers |-> TRUE, setState |-> FALSE]

\* A faulty join, which seats every sender as a new player.
joinRequestAppending(name, senderId) ==
  LET newPlayer == [id |-> senderId, name |-> name, team |-> "spectator",
                    role |-> "operative", isHost |-> FALSE]
  IN broadcast(Append(playersRef, newPlayer), gameStateRef, TRUE, FALSE)

\* JOIN_REQUEST branch of handleMessage.
joinRequest(name, senderId) ==
  LET newPlayer == [id |-> senderId, name |-> name, team |-> "spectator",
                    role |-> "operative", isHost |-> FALSE]
      currentPlayers ==
        IF find(playersRef, newPlayer.id) = <<>>
          THEN Append(playersRef, newPlayer)
          ELSE [i \in DOMAIN playersRef |->
                  IF playersRef[i].id = newPlayer.id
                    THEN [playersRef[i] EXCEPT !.name = newPlayer.name]
                    ELSE playersRef[i]]
  IN broadcast(currentPlayers, gameStateRef, TRUE, FALSE)

\* A faulty team change, which leaves the role as it is.
changeTeamKeepingRole(team, senderId) ==
  IF gameStateRef.status # "lobby" THEN Dropped
  ELSE updatePlayer(senderId, [team |-> team])

\* A faulty team change, which does not look at the status.
changeTeamAnyStatus(team, senderId) ==
  updatePlayer(senderId, [team |-> team, role |-> "operative"])

\* ACTION_CHANGE_TEAM branch of handleMessage.
changeTeam(team, senderId) ==
  IF gameStateRef.status # "lobby" THEN Dropped
  ELSE updatePlayer(senderId, [team |-> team, role |-> "operative"])

\* A faulty role change, which does not look for the team's spymaster.
changeRoleUnchecked(team, role, senderId) ==
  IF gameStateRef.status # "lobby" THEN Dropped
  ELSE updatePlayer(senderId, [role |-> role])

\* ACTION_CHANGE_ROLE branch of handleMessage.
changeRole(team, role, senderId) ==
  LET teamPlayers == {i \in DOMAIN playersRef : playersRef[i].team = team}
      hasSpymaster ==
        \E i \in teamPlayers :
          playersRef[i].role = "spymaster" /\ playersRef[i].id # senderId
  IN IF gameStateRef.status # "lobby" THEN Dropped
     ELSE IF role = "spymaster" /\ hasSpymaster THEN Dropped
     ELSE updatePlayer(senderId, [role |-> role])

\* The host branch of handleMessage; senderId is conn.peer for a message
\* from a connection and myId for the host's own sendAction.  seed is the
\* outcome of Math.random() during this run.
handleMessage(msg, senderId, seed) ==
  CASE msg.type = "JOIN_REQUEST" ->
         joinRequest(msg.payload.name, senderId)
    [] msg.type = "ACTION_CHANGE_TEAM" ->
         changeTeam(msg.payload.team, senderId)
    [] msg.type = "ACTION_CHANGE_ROLE" ->
         changeRole(msg.payload.team, msg.payload.role, senderId)
    [] msg.type = "ACTION_START_GAME" -> startGame(seed)
    [] msg.type = "ACTION_SUBMIT_HINT" ->
         IF gameStateRef.status # "playing" THEN Dropped
         ELSE submitHintHost(msg.payload.word, msg.payload.count, senderId)
    [] msg.type = "ACTION_REVEAL" ->
         IF gameStateRef.status # "playing" THEN Dropped
         ELSE handleCardClickHost(msg.payload.index, senderId)
    [] msg.type = "ACTION_END_TURN" ->
         IF gameStateRef.status # "playing" THEN Dropped
         ELSE endTurnHost(senderId)
    [] msg.type = "ACTION_RESET" -> resetGameHost

\* { ...data, senderId: id }
WithSender(data, id) ==
  [f \in DOMAIN data \cup {"senderId"} |->
     IF f = "senderId" THEN id ELSE data[f]]

\* A faulty data handler, which trusts the senderId the message carries.
connDataTrusting(data, peer, seed) ==
  handleMessage(data, data.senderId, seed)

\* conn.on('data') on the host: msg.senderId = conn.peer, then handleMessage.
connData(data, peer, seed) ==
  LET msg == WithSender(data, peer)
  IN handleMessage(msg, msg.senderId, seed)

\* sendAction on the host itself: handleMessage({ type, payload, senderId:
\* myId }).
sendAction(msg, seed) ==
  LET own == WithSender(msg, Host)
  IN handleMessage(own, own.senderId, seed)

\* A faulty close handler, whose filter keeps the player that left.
connCloseInverted(playerId) ==
  LET remainingPlayers == SelectSeq(playersRef, LAMBDA q : q.id = playerId)
  IN IF Len(remainingPlayers) # Len(playersRef)
       THEN broadcast(remainingPlayers, gameStateRef, TRUE, FALSE)
       ELSE Dropped

\* conn.on('close') on the host, after connectionsRef dropped the peer.
connClose(playerId) ==
  LET remainingPlayers == filter(playersRef, playerId)
  IN IF Len(remainingPlayers) # Len(playersRef)
       THEN broadcast(remainingPlayers, gameStateRef, TRUE, FALSE)
       ELSE Dropped

\* The sends of broadcast: SYNC_PLAYERS then SYNC_STATE on every open
\* connection.
Sends(r, conns) ==
  [c \in ClientIds |->
     IF r.bcast /\ c \in conns
       THEN chan[c] \o <<[type |-> "SYNC_PLAYERS", payload |-> r.players],
                         [type |-> "SYNC_STATE", payload |-> r.state]>>
       ELSE chan[c]]

Room(r, conns) ==
  r.bcast => \A c \in conns : Len(chan[c]) + 2 <= MaxQueue

\* The state updates a handler run queued (setPlayers / setGameState).  The
\* refs follow at the next refresh; an update made in the host's own click
\* handler is rendered, and its ref refreshed, before the handler's task ends.
Commit(r, local) ==
  /\ players' = IF r.setPlayers THEN r.players ELSE players
  /\ gameState' = IF r.setState THEN r.state ELSE gameState
  /\ playersRef' = IF local /\ r.setPlayers THEN r.players ELSE playersRef
  /\ gameStateRef' = IF local /\ r.setState THEN r.state ELSE gameStateRef

\* ------------------------------------------------------------- the host UI

\* What the host's own views let it send, given the state last rendered
\* (the refs are refreshed from it right after each render).
HostUI(msg) ==
  LET me == find(playersRef, Host)
      gs == gameStateRef
      isGameOver == gs.status = "red_win" \/ gs.status = "blue_win"
      isMyTurn == me # <<>> /\ me[1].team = gs.currentTurn
      isHintingPhase == gs.turnPhase = "hinting"
      isGuessingPhase == gs.turnPhase = "guessing"
      isMyRoleToAct ==
        \/ isHintingPhase /\ isMyTurn /\ me[1].role = "spymaster"
        \/ isGuessingPhase /\ isMyTurn /\ me[1].role = "operative"
      canStart ==
        /\ \E i \in DOMAIN playersRef : playersRef[i].team = "red"
        /\ \E i \in DOMAIN playersRef : playersRef[i].team = "blue"
      inLobby == gs.status = "lobby"
      inGame == gs.status # "lobby" /\ me # <<>>
  IN CASE msg.type = "ACTION_CHANGE_TEAM" ->
            inLobby /\ msg.payload.team \in {"red", "blue"}
       [] msg.type = "ACTION_CHANGE_ROLE" ->
            /\ inLobby /\ me # <<>>
            /\ me[1].team \in {"red", "blue"}
            /\ msg.payload.team = me[1].team
            /\ msg.payload.role = (IF me[1].role = "spymaster"
                                     THEN "operative" ELSE "spymaster")
       [] msg.type = "ACTION_START_GAME" -> inLobby /\ canStart
       [] msg.type = "ACTION_RESET" -> inGame
       [] msg.type = "ACTION_SUBMIT_HINT" ->
            /\ inGame /\ ~isGameOver /\ isHintingPhase /\ isMyRoleToAct
            /\ msg.payload.count \in 1 .. 9
       [] msg.type = "ACTION_REVEAL" ->
            /\ inGame /\ ~isGameOver /\ isMyRoleToAct /\ isGuessingPhase
            /\ me[1].role = "operative"
            /\ msg.payload.index \in 0 .. (Len(gs.cards) - 1)
            /\ ~gs.cards[msg.payload.index + 1].revealed
       [] msg.type = "ACTION_END_TURN" ->
            inGame /\ ~isGameOver /\ isGuessingPhase /\ isMyRoleToAct
       [] OTHER -> FALSE

\* A remote client sends whatever it likes once its connection is open; its
\* JOIN_REQUEST, sent in conn.on('open'), arrives before anything else.
CanSend(p, msg) ==
  IF p = Host THEN HostUI(msg)
  ELSE /\ p \in connections
       /\ (p \in joining => msg.type = "JOIN_REQUEST")

\* --------------------------------------------------------------- scenarios

\* Card indexes the peers click.  Cards of one type are interchangeable to
\* the handlers: of the red and of the blue cards the peers click the lowest
\* unrevealed one, and they click the assassin.
DeepClicks(cards) ==
  LET lowest(S) == {i \in S : \A j \in S : i <= j}
      hid(t) == {i \in DOMAIN cards :
                   cards[i].type = t /\ ~cards[i].revealed}
      inside == lowest(hid("red")) \cup lowest(hid("blue"))
                \cup lowest(hid("assassin"))
  IN {i - 1 : i \in inside}

\* The first card of each type, revealed or not, and two indexes outside the
\* array.
AnyClicks(cards) ==
  LET lowest(S) == {i \in S : \A j \in S : i <= j}
      of(t) == {i \in DOMAIN cards : cards[i].type = t}
      inside == UNION {lowest(of(t)) :
                         t \in {"red", "blue", "assassin", "neutral"}}
  IN {i - 1 : i \in inside} \cup {0 - 1, GRID_SIZE}

AllRoles == {"red", "blue"} \X {"operative", "spymaster"}

\* Remote clients that send any message at any time; a shallow game.
Hostile ==
  [clients |-> {"c1", "c2"},
   names |-> [c \in ClientIds |-> {"a"}],
   teams |-> [p \in PeerIds |-> IF p = Host THEN {} ELSE {"red", "blue"}],
   roles |-> [p \in PeerIds |-> IF p = Host THEN {} ELSE AllRoles],
   seated |-> {},
   order |-> FALSE,
   starters |-> PeerIds,
   seeds |-> Seeds,
   counts |-> 1 .. MaxHintCount,
   deep |-> FALSE,
   closers |-> {"c1", "c2"},
   tracked |-> {},
   senderId |-> [p \in PeerIds |-> Host],
   silent |-> {}]

\* A full table: each peer takes its seat in the lobby; the operatives click
\* unrevealed cards and whole games are played.
Table ==
  [clients |-> {"c1", "c2", "c3"},
   names |-> [c \in ClientIds |-> {"a"}],
   teams |-> [p \in PeerIds |->
                IF p \in {Host, "c1"} THEN {"red"} ELSE {"blue"}],
   roles |-> [p \in PeerIds |->
                IF p = Host THEN {<<"red", "spymaster">>}
                ELSE IF p = "c2" THEN {<<"blue", "spymaster">>}
                ELSE {}],
   seated |-> PeerIds,
   order |-> TRUE,
   starters |-> {Host, "c3"},
   seeds |-> Seeds,
   counts |-> 1 .. MaxHintCount,
   deep |-> TRUE,
   closers |-> {},
   tracked |-> {},
   senderId |-> [p \in PeerIds |-> p],
   silent |-> {}]

\* The full table with clients that send any hint count and any card index.
Rough ==
  [Table EXCEPT !.counts = (0 - 1) .. MaxHintCount, !.deep = FALSE,
                !.senderId = [p \in PeerIds |-> Host]]

\* Two remote clients whose replicas are followed, around the lobby and the
\* start of a game.
Net ==
  [Hostile EXCEPT
     !.teams = [p \in PeerIds |->
                  IF p = "c1" THEN {"red"}
                  ELSE IF p = "c2" THEN {"blue"} ELSE {}],
     !.roles = [p \in PeerIds |-> {}],
     !.starters = {Host},
     !.seeds = {1},
     !.closers = {"c2"},
     !.tracked = {"c1", "c2"}]

\* Two remote clients that stay and join again under another name; c1 may
\* ask for the red spymaster's seat.
Rejoin ==
  [Net EXCEPT
     !.closers = {},
     !.names = [c \in ClientIds |-> {"a", "b"}],
     !.roles = [p \in PeerIds |->
                  IF p = "c1" THEN {<<"red", "spymaster">>} ELSE {}]]

\* A lobby where client c2 is of a build that sends no JOIN_REQUEST when its
\* connection opens.
Stranger ==
  [Hostile EXCEPT
     !.teams = [p \in PeerIds |-> IF p = Host THEN {} ELSE {"red"}],
     !.roles = [p \in PeerIds |->
                  IF p = Host THEN {} ELSE {<<"red", "spymaster">>}],
     !.silent = {"c2"}]

\* ----------------------------------------------------------------- actions

Init ==
  /\ players = <<[id |-> Host, name |-> "Host", team |-> "spectator",
                  role |-> "operative", isHost |-> TRUE]>>
  /\ playersRef = players
  /\ gameState = INITIAL_STATE
  /\ gameStateRef = INITIAL_STATE
  /\ connections = {}
  /\ joining = {}
  /\ chan = [c \in ClientIds |-> <<>>]
  /\ cPlayers = [c \in ClientIds |-> <<>>]
  /\ cGameState = [c \in ClientIds |-> INITIAL_STATE]
  /\ last = [type |-> "open", bcast |-> FALSE]

\* The message a client puts on its connection: its JOIN_REQUEST carries
\* conn.peer, which on the client's end is the host's id; the senderId of
\* every other message is whatever the client chooses.
Sent(e, msg, p) ==
  WithSender(msg, IF msg.type = "JOIN_REQUEST" THEN Host ELSE e.senderId[p])

\* One run of the host's handleMessage on msg from p.
Receive(e, msg, p, seed) ==
  LET r == IF p = Host THEN sendAction(msg, seed)
           ELSE connData(Sent(e, msg, p), p, seed)
      to == connections \cap e.tracked
  IN /\ CanSend(p, msg)
     /\ Room(r, to)
     /\ Commit(r, p = Host)
     /\ chan' = Sends(r, to)
     /\ last' = [type |-> msg.type, bcast |-> r.bcast]
     /\ joining' = IF msg.type = "JOIN_REQUEST" THEN joining \ {p}
                   ELSE joining
     /\ UNCHANGED <<connections, cPlayers, cGameState>>

NoPayload == [none |-> TRUE]

JoinRequest(e) ==
  \E c \in e.clients : \E n \in e.names[c] :
    Receive(e, [type |-> "JOIN_REQUEST", payload |-> [name |-> n]], c, 1)

ChangeTeam(e) ==
  \E p \in PeerIds : \E t \in e.teams[p] :
    Receive(e, [type |-> "ACTION_CHANGE_TEAM", payload |-> [team |-> t]],
            p, 1)

ChangeRole(e) ==
  \E p \in PeerIds : \E tr \in e.roles[p] :
    Receive(e, [type |-> "ACTION_CHANGE_ROLE",
                payload |-> [team |-> tr[1], role |-> tr[2]]], p, 1)

\* The peers of e.seated hold their seat (a team, and the role they ask
\* for) before anyone starts.
Seated(e) ==
  \A p \in e.seated :
    \E i \in DOMAIN playersRef :
      /\ playersRef[i].id = p
      /\ playersRef[i].team \in e.teams[p]
      /\ \A tr \in e.roles[p] : playersRef[i].role = tr[2]

Rank(c) == CASE c = "c1" -> 1 [] c = "c2" -> 2 [] OTHER -> 3

\* With e.order the clients connect one after the other, each once the
\* one before it is in the roster.
InOrder(e, c) ==
  e.order =>
    \A d \in e.clients :
      Rank(d) < Rank(c) =>
        \E i \in DOMAIN playersRef : playersRef[i].id = d

StartGame(e) ==
  \E p \in e.starters, seed \in e.seeds :
    /\ Seated(e)
    /\ Receive(e, [type |-> "ACTION_START_GAME", payload |-> NoPayload],
               p, seed)

SubmitHint(e) ==
  \E p \in PeerIds, w \in HintWords, n \in e.counts :
    Receive(e, [type |-> "ACTION_SUBMIT_HINT",
                payload |-> [word |-> w, count |-> n]], p, 1)

Reveal(e) ==
  \E p \in PeerIds :
    \E i \in (IF e.deep THEN DeepClicks(gameStateRef.cards)
              ELSE AnyClicks(gameStateRef.cards)) :
      Receive(e, [type |-> "ACTION_REVEAL", payload |-> [index |-> i]],
              p, 1)

EndTurn(e) ==
  \E p \in PeerIds :
    Receive(e, [type |-> "ACTION_END_TURN", payload |-> NoPayload], p, 1)

ResetGame(e) ==
  \E p \in e.starters :
    Receive(e, [type |-> "ACTION_RESET", payload |-> NoPayload], p, 1)

\* conn.on('open') on both ends: the host keeps the connection, the client
\* sends its JOIN_REQUEST.
ConnOpen(e) ==
  \E c \in e.clients \ connections :
    /\ InOrder(e, c)
    /\ connections' = connections \cup {c}
    /\ joining' = joining \cup ({c} \ e.silent)
    /\ last' = [type |-> "open", bcast |-> FALSE]
    /\ UNCHANGED <<players, gameState, playersRef, gameStateRef, chan,
                   cPlayers, cGameState>>

\* conn.on('close') on both ends: nothing more is delivered, the host drops
\* the connection and the player; the client goes back to the home screen
\* with the replica it has.
ConnClose(e) ==
  \E c \in connections \cap e.closers :
    LET r == connClose(c)
        to == (connections \ {c}) \cap e.tracked
    IN /\ Room(r, to)
       /\ connections' = connections \ {c}
       /\ joining' = joining \ {c}
       /\ Commit(r, FALSE)
       /\ chan' = [Sends(r, to) EXCEPT ![c] = <<>>]
       /\ UNCHANGED <<cPlayers, cGameState>>
       /\ last' = [type |-> "close", bcast |-> r.bcast]

\* The two useEffect callbacks that refresh the refs after a render.
Render ==
  /\ players # playersRef \/ gameState # gameStateRef
  /\ playersRef' = players
  /\ gameStateRef' = gameState
  /\ UNCHANGED <<players, gameState, connections, joining, chan, cPlayers,
                 cGameState, last>>

\* A faulty client branch, which adds the roster it is sent to its own.
clientMessageAdding(msg, ps, gs) ==
  CASE msg.type = "SYNC_STATE" -> [players |-> ps, state |-> msg.payload]
    [] msg.type = "SYNC_PLAYERS" ->
         [players |-> ps \o msg.payload, state |-> gs]
    [] OTHER -> [players |-> ps, state |-> gs]

\* The client branch of handleMessage, on a client whose roster is ps and
\* whose GameState is gs.
clientMessage(msg, ps, gs) ==
  CASE msg.type = "SYNC_STATE" -> [players |-> ps, state |-> msg.payload]
    [] msg.type = "SYNC_PLAYERS" -> [players |-> msg.payload, state |-> gs]
    [] OTHER -> [players |-> ps, state |-> gs]

\* The client branch of handleMessage on the next message from the host.
Deliver ==
  \E c \in connections :
    /\ chan[c] # <<>>
    /\ chan' = [chan EXCEPT ![c] = Tail(@)]
    /\ LET r == clientMessage(Head(chan[c]), cPlayers[c], cGameState[c])
       IN /\ cPlayers' = [cPlayers EXCEPT ![c] = r.players]
          /\ cGameState' = [cGameState EXCEPT ![c] = r.state]
    /\ UNCHANGED <<players, gameState, playersRef, gameStateRef, connections,
                   joining, last>>

\* Hostile clients around the lobby and a shallow game.
Next ==
  \/ JoinRequest(Hostile)
  \/ ChangeTeam(Hostile)
  \/ ChangeRole(Hostile)
  \/ StartGame(Hostile)
  \/ ResetGame(Hostile)
  \/ ConnOpen(Hostile)
  \/ ConnClose(Hostile)
  \/ Render

Spec == Init /\ [][Next]_vars

\* A full table playing whole games.
NextGame ==
  \/ JoinRequest(Table)
  \/ ChangeTeam(Table)
  \/ ChangeRole(Table)
  \/ StartGame(Table)
  \/ SubmitHint(Table)
  \/ Reveal(Table)
  \/ EndTurn(Table)
  \/ ResetGame(Table)
  \/ ConnOpen(Table)
  \/ Render

SpecGame == Init /\ [][NextGame]_vars

\* A full table with clients that send any payload.
NextRough ==
  \/ JoinRequest(Rough)
  \/ ChangeTeam(Rough)
  \/ ChangeRole(Rough)
  \/ StartGame(Rough)
  \/ SubmitHint(Rough)
  \/ Reveal(Rough)
  \/ EndTurn(Rough)
  \/ ResetGame(Rough)
  \/ ConnOpen(Rough)
  \/ Render

SpecRough == Init /\ [][NextRough]_vars

\* Two clients and their replicas.
NextNet ==
  \/ JoinRequest(Net)
  \/ ChangeTeam(Net)
  \/ StartGame(Net)
  \/ ResetGame(Net)
  \/ ConnOpen(Net)
  \/ ConnClose(Net)
  \/ Render
  \/ Deliver

SpecNet == Init /\ [][NextNet]_vars

\* Two clients that join again, and their replicas.
NextRejoin ==
  \/ JoinRequest(Rejoin)
  \/ ChangeTeam(Rejoin)
  \/ ChangeRole(Rejoin)
  \/ StartGame(Rejoin)
  \/ ResetGame(Rejoin)
  \/ ConnOpen(Rejoin)
  \/ Render
  \/ Deliver

SpecRejoin == Init /\ [][NextRejoin]_vars

\* A lobby with a client that never joined.
NextStranger ==
  \/ JoinRequest(Stranger)
  \/ ChangeTeam(Stranger)
  \/ ChangeRole(Stranger)
  \/ ConnOpen(Stranger)
  \/ ConnClose(Stranger)
  \/ Render

SpecStranger == Init /\ [][NextStranger]_vars

\* getWinner by itself, on every small card set and either turn.
CardSets ==
  UNION {[1 .. n -> [word : {1}, type : {"red", "blue", "neutral", "assassin"},
                     revealed : BOOLEAN]] : n \in 0 .. MaxCards}

InitWinner ==
  /\ players = <<>>
  /\ playersRef = players
  /\ \E cs \in CardSets : \E t \in {"red", "blue"} :
       gameState = [INITIAL_STATE EXCEPT !.cards = cs, !.currentTurn = t]
  /\ gameStateRef = gameState
  /\ connections = {}
  /\ joining = {}
  /\ chan = [c \in ClientIds |-> <<>>]
  /\ cPlayers = [c \in ClientIds |-> <<>>]
  /\ cGameState = [c \in ClientIds |-> INITIAL_STATE]
  /\ last = [type |-> "open", bcast |-> FALSE]

\* winner = getWinner(cards, currentTurn)
EvalWinner ==
  /\ last.type = "open"
  /\ gameState' = [gameState EXCEPT
                     !.winner = getWinner(gameState.cards,
                                          gameState.currentTurn)]
  /\ last' = [type |-> "getWinner", bcast |-> FALSE]
  /\ UNCHANGED <<players, playersRef, gameStateRef, connections, joining,
                 chan, cPlayers, cGameState>>

SpecWinner == InitWinner /\ [][EvalWinner]_vars

\* generateBoard by itself, on word lists in which one line may stand twice:
\* the word pool with the word at one place written over another.
WordLists ==
  {[WordPool EXCEPT ![i] = WordPool[j]] : i, j \in DOMAIN WordPool}

InitBoard ==
  /\ players = <<>>
  /\ playersRef = players
  /\ gameState = INITIAL_STATE
  /\ gameStateRef = gameState
  /\ connections = {}
  /\ joining = {}
  /\ chan = [c \in ClientIds |-> <<>>]
  /\ cPlayers = [c \in ClientIds |-> <<>>]
  /\ cGameState = [c \in ClientIds |-> INITIAL_STATE]
  /\ \E words \in WordLists :
       last = [type |-> "words", bcast |-> FALSE, words |-> words]

\* const { cards, startingTeam } = generateBoard()
GenerateBoard ==
  /\ last.type = "words"
  /\ \E seed \in Seeds :
       LET board == generateBoardOn(last.words, seed)
       IN gameState' = [gameState EXCEPT
                          !.cards = board.cards,
                          !.startingTeam = board.startingTeam]
  /\ last' = [last EXCEPT !.type = "generateBoard"]
  /\ UNCHANGED <<players, playersRef, gameStateRef, connections, joining,
                 chan, cPlayers, cGameState>>

SpecBoard == InitBoard /\ [][GenerateBoard]_vars

\* -------------------------------------------------------------- properties

Rendered == players = playersRef /\ gameState = gameStateRef

RevealMsg(i) == [type |-> "ACTION_REVEAL", payload |-> [index |-> i]]
StartMsg == [type |-> "ACTION_START_GAME", payload |-> NoPayload]
ResetMsg == [type |-> "ACTION_RESET", payload |-> NoPayload]
JoinMsg(n) == [type |-> "JOIN_REQUEST", payload |-> [name |-> n]]

OperativeOfTurn(p) ==
  \E i \in DOMAIN playersRef :
    /\ playersRef[i].id = p
    /\ playersRef[i].team = gameStateRef.currentTurn
    /\ playersRef[i].role = "operative"

Spymasters(ps, t) ==
  {i \in DOMAIN ps : ps[i].team = t /\ ps[i].role = "spymaster"}

\* C1: while the game is playing in the guessing phase, an ACTION_REVEAL from
\* an operative of the current team that names an already revealed card
\* leaves the host GameState as it was.
C1_RevealedCardIsNoOp ==
  [][\A p \in PeerIds : \A i \in 0 .. (GRID_SIZE - 1) :
       (/\ Rendered
        /\ gameState.status = "playing"
        /\ gameState.turnPhase = "guessing"
        /\ OperativeOfTurn(p)
        /\ i < Len(gameState.cards)
        /\ gameState.cards[i + 1].revealed
        /\ Receive(Rough, RevealMsg(i), p, 1))
       => gameState' = gameState]_vars

\* C2: an ACTION_START_GAME from a remote connection leaves the host
\* GameState as it was.
C2_RemoteStartIsNoOp ==
  [][\A c \in ClientIds : \A seed \in Seeds :
       (Rendered /\ Receive(Hostile, StartMsg, c, seed))
       => gameState' = gameState]_vars

\* C3: an ACTION_RESET from a remote connection leaves the host GameState as
\* it was, whatever the status.
C3_RemoteResetIsNoOp ==
  [][\A c \in ClientIds :
       (Rendered /\ Receive(Hostile, ResetMsg, c, 1))
       => gameState' = gameState]_vars

\* C4: an ACTION_START_GAME handled while the roster has no red player or no
\* blue player starts no game: the status does not become playing and no
\* board is generated.
C4_StartNeedsBothTeams ==
  [][\A p \in PeerIds : \A seed \in Seeds :
       (/\ Rendered
        /\ gameState.status = "lobby"
        /\ \/ \A i \in DOMAIN players : players[i].team # "red"
           \/ \A i \in DOMAIN players : players[i].team # "blue"
        /\ Receive(Hostile, StartMsg, p, seed))
       => gameState'.status # "playing" /\ gameState'.cards = <<>>]_vars

\* C5: the host roster never has two spymasters on team red nor two on team
\* blue: no message handled on a rendered roster with at most one spymaster
\* per team produces a roster with two.
C5_OneSpymasterPerTeam ==
  [][(/\ Rendered
      /\ \A t \in {"red", "blue"} : Cardinality(Spymasters(players, t)) <= 1)
     => \A t \in {"red", "blue"} :
          Cardinality(Spymasters(players', t)) <= 1]_vars

\* C6: a message is handled on the roster the message before it produced,
\* also when the refs have not been refreshed since: a JOIN_REQUEST handled
\* right after another accepted update keeps every player of the roster.
C6_NoUpdateLost ==
  [][\A c \in ClientIds :
       Receive(Hostile, JoinMsg("a"), c, 1)
       => \A i \in DOMAIN players :
            \E j \in DOMAIN players' : players'[j].id = players[i].id]_vars

\* C7: whenever no message is in flight and the host has no pending state
\* update, the replica of every connected client equals the host's roster
\* and GameState.
C7_ReplicasConverge ==
  (/\ Rendered
   /\ joining = {}
   /\ \A c \in ClientIds : chan[c] = <<>>)
  => \A c \in connections :
       cPlayers[c] = players /\ cGameState[c] = gameState

\* C8: the winner is set exactly in the two win statuses, and it is the team
\* the status names.
C8_WinnerIffWinStatus ==
  /\ gameState.winner # Null <=> gameState.status \in {"red_win", "blue_win"}
  /\ gameState.winner = "red" <=> gameState.status = "red_win"
  /\ gameState.winner = "blue" <=> gameState.status = "blue_win"

\* A game won by revealing the last card of a team, the assassin hidden.
C8_Witness ==
  /\ gameState.status \in {"red_win", "blue_win"}
  /\ \A i \in DOMAIN gameState.cards :
       gameState.cards[i].type = "assassin" => ~gameState.cards[i].revealed

\* C9: in the guessing phase there is a hint; in the hinting phase there is
\* none and no guess is counted.
C9_PhaseAndHint ==
  /\ gameState.turnPhase = "guessing" => gameState.currentHint # <<>>
  /\ gameState.turnPhase = "hinting" =>
       gameState.currentHint = <<>> /\ gameState.guessesMade = 0

\* A reveal that passed the turn after a counted guess, back to hinting.
C9_Witness ==
  /\ last = [type |-> "ACTION_REVEAL", bcast |-> TRUE]
  /\ gameStateRef.turnPhase = "guessing"
  /\ gameStateRef.guessesMade > 0
  /\ gameState.status = "playing"
  /\ gameState.turnPhase = "hinting"

\* C10: once a game has started the board has GRID_SIZE cards, each with a
\* word and one of the four types, whatever index an ACTION_REVEAL carries.
C10_BoardIntact ==
  gameState.status \in {"playing", "red_win", "blue_win"} =>
    /\ Len(gameState.cards) = GRID_SIZE
    /\ \A i \in DOMAIN gameState.cards :
         /\ gameState.cards[i].word # UndefinedWord
         /\ gameState.cards[i].type \in
              {"red", "blue", "neutral", "assassin"}

HintMsg(w, n) ==
  [type |-> "ACTION_SUBMIT_HINT", payload |-> [word |-> w, count |-> n]]
EndTurnMsg == [type |-> "ACTION_END_TURN", payload |-> NoPayload]
TeamMsg(t) == [type |-> "ACTION_CHANGE_TEAM", payload |-> [team |-> t]]
RoleMsg(t, r) ==
  [type |-> "ACTION_CHANGE_ROLE", payload |-> [team |-> t, role |-> r]]

\* The messages a client may put on its connection, without the senderId.
ClientMsgs ==
  {JoinMsg("a"), StartMsg, ResetMsg, EndTurnMsg}
  \cup {TeamMsg(t) : t \in {"red", "blue"}}
  \cup {RoleMsg(tr[1], tr[2]) : tr \in AllRoles}
  \cup {HintMsg(w, 1) : w \in HintWords}
  \cup {RevealMsg(i) : i \in AnyClicks(gameStateRef.cards)}

\* --------------------------------------- the simple variant (src/App.tsx)

\* broadcast of the simple variant: both states are set on every call.
simpleBroadcast(currentPlayers, currentGameState) ==
  [bcast |-> TRUE, players |-> currentPlayers, state |-> currentGameState,
   setPlayers |-> TRUE, setState |-> TRUE]

simpleUpdatePlayer(playerId, updates) ==
  LET newPlayers ==
        [i \in DOMAIN playersRef |->
           IF playersRef[i].id = playerId
             THEN Spread(playersRef[i], updates)
             ELSE playersRef[i]]
  IN simpleBroadcast(newPlayers, gameStateRef)

\* JOIN_REQUEST branch: id: msg.senderId || conn.peer.
simpleJoinRequest(msg, peer) ==
  LET newPlayer == [id |-> IF msg.senderId # Undefined THEN msg.senderId
                           ELSE peer,
                    name |-> msg.payload.name, team |-> "spectator",
                    role |-> "operative", isHost |-> FALSE]
  IN IF find(playersRef, newPlayer.id) = <<>>
       THEN simpleBroadcast(Append(playersRef, newPlayer), gameStateRef)
       ELSE simpleBroadcast(playersRef, gameStateRef)

\* The lobby cases of the simple host's handleMessage; its data handler
\* passes the message on as it came.
simpleHandleMessage(msg, peer) ==
  CASE msg.type = "JOIN_REQUEST" -> simpleJoinRequest(msg, peer)
    [] msg.type = "ACTION_CHANGE_TEAM" ->
         IF gameStateRef.status # "lobby" THEN Dropped
         ELSE simpleUpdatePlayer(msg.senderId,
                                 [team |-> msg.payload.team,
                                  role |-> "operative"])

\* One run of the simple host's handleMessage on data from client c.  The
\* replicas are not followed here.
SimpleReceive(data, c) ==
  LET r == simpleHandleMessage(data, c)
  IN /\ c \in connections
     /\ c \in joining => data.type = "JOIN_REQUEST"
     /\ Commit(r, FALSE)
     /\ last' = [type |-> data.type, bcast |-> r.bcast]
     /\ joining' = IF data.type = "JOIN_REQUEST" THEN joining \ {c}
                   ELSE joining
     /\ UNCHANGED <<connections, chan, cPlayers, cGameState>>

\* The client sends senderId: conn.peer, which is the host's id on its end;
\* a client of another build sends none.
SimpleJoin ==
  \E c \in Hostile.clients : \E id \in {Host, Undefined} :
    SimpleReceive(WithSender(JoinMsg("a"), id), c)

\* sendAction of the client sends { type, payload } with no senderId; a
\* client of another build sends its own id.
SimpleChangeTeam ==
  \E c \in Hostile.clients : \E t \in {"red", "blue"} :
    \E id \in {Undefined, c} :
      SimpleReceive(WithSender(TeamMsg(t), id), c)

NextSimple ==
  \/ ConnOpen(Hostile)
  \/ SimpleJoin
  \/ SimpleChangeTeam
  \/ Render

SpecSimple == Init /\ [][NextSimple]_vars

\* C11: what the host does with a message from a remote connection depends
\* on the connection's peer id only: whatever senderId the message carries,
\* the handler's broadcast and state updates are those of the same message
\* carrying the peer's own id.
C11_SenderIdIgnored ==
  \A c \in ClientIds : \A msg \in ClientMsgs :
    \A id \in (PeerIds \ {c}) \cup {Undefined} :
      connData(WithSender(msg, id), c, 1) = connData(WithSender(msg, c), c, 1)

\* Red is hinting and the red operative c1 has sent a hint carrying the id of
\* the host, the red spymaster: the host would have been heard, c1 was not.
C11_Witness ==
  /\ Rendered
  /\ last = [type |-> "ACTION_SUBMIT_HINT", bcast |-> FALSE]
  /\ gameState.status = "playing"
  /\ handleMessage(HintMsg("clue", 1), Host, 1).bcast
  /\ Rough.senderId["c1"] = Host
  /\ ~connData(Sent(Rough, HintMsg("clue", 1), "c1"), "c1", 1).bcast

\* C12: in the simple variant, a JOIN_REQUEST from a connection whose peer
\* id is not in the roster adds a roster entry with that peer id.
C12_SimpleJoinAddsPeer ==
  [][\A c \in ClientIds : \A id \in {Host, Undefined} :
       (/\ Rendered
        /\ find(players, c) = <<>>
        /\ SimpleReceive(WithSender(JoinMsg("a"), id), c))
       => find(players', c) # <<>>]_vars

\* Every card of the first board is in the second, with its word and type.
SameBoard(a, b) ==
  \A i \in DOMAIN a :
    i \in DOMAIN b /\ b[i].word = a[i].word /\ b[i].type = a[i].type

\* C13: the status changes only from lobby to playing by a start, from
\* playing to a win by a reveal, and to lobby by a reset; and the board of
\* a started game is replaced by no step that stays out of the lobby.
C13_StatusTransitions ==
  [][Rendered =>
       /\ gameState'.status # gameState.status =>
            \/ /\ gameState.status = "lobby"
               /\ gameState'.status = "playing"
               /\ last'.type = "ACTION_START_GAME"
            \/ /\ gameState.status = "playing"
               /\ gameState'.status \in {"red_win", "blue_win"}
               /\ last'.type = "ACTION_REVEAL"
            \/ /\ gameState'.status = "lobby"
               /\ last'.type = "ACTION_RESET"
       /\ (gameState.status # "lobby" /\ gameState'.status # "lobby") =>
            SameBoard(gameState.cards, gameState'.cards)]_vars

\* What the host is to reject: an action in the wrong status or phase, by a
\* sender that is not in the roster, not of the team in turn or not of the
\* role that acts, a role request for a taken spymaster seat, or the reveal
\* of a revealed card.
Rejected(msg, p) ==
  LET me == find(players, p)
      gs == gameState
      lobby == gs.status = "lobby" /\ me # <<>>
      turn == /\ gs.status = "playing" /\ me # <<>>
              /\ me[1].team = gs.currentTurn
  IN CASE msg.type = "ACTION_CHANGE_TEAM" -> ~lobby
       [] msg.type = "ACTION_CHANGE_ROLE" ->
            \/ ~lobby
            \/ /\ msg.payload.role = "spymaster"
               /\ \E i \in Spymasters(players, msg.payload.team) :
                    players[i].id # p
       [] msg.type = "ACTION_SUBMIT_HINT" ->
            ~(turn /\ gs.turnPhase = "hinting" /\ me[1].role = "spymaster")
       [] msg.type = "ACTION_REVEAL" ->
            \/ ~(/\ turn /\ gs.turnPhase = "guessing"
                 /\ me[1].role = "operative")
            \/ /\ msg.payload.index \in 0 .. (Len(gs.cards) - 1)
               /\ gs.cards[msg.payload.index + 1].revealed
       [] msg.type = "ACTION_END_TURN" ->
            ~(turn /\ gs.turnPhase = "guessing")
       [] OTHER -> FALSE

\* C14: a rejected action leaves the roster and the GameState as they were
\* and triggers no broadcast.
C14_RejectedIsSilent ==
  [][\A p \in ClientIds : \A msg \in ClientMsgs :
       (Rendered /\ Rejected(msg, p) /\ Receive(Stranger, msg, p, 1))
       => /\ players' = players
          /\ gameState' = gameState
          /\ ~last'.bcast]_vars

\* C15: within one game (no start or reset is handled or waits to be
\* rendered) every card keeps its word and its type and a revealed card stays
\* revealed; an accepted reveal changes the card at its index only.
C15_CardsMonotone ==
  [][(/\ gameState.status # "lobby"
      /\ gameStateRef.status # "lobby"
      /\ SameBoard(gameStateRef.cards, gameState.cards)
      /\ last'.type \notin {"ACTION_START_GAME", "ACTION_RESET"})
     => /\ SameBoard(gameState.cards, gameState'.cards)
        /\ \A i \in DOMAIN gameState.cards :
             gameState.cards[i].revealed => gameState'.cards[i].revealed
        /\ Cardinality({i \in DOMAIN gameState.cards :
                          gameState'.cards[i] # gameState.cards[i]}) <= 1]_vars

\* C16: getWinner gives the team that is not in turn when an assassin is
\* revealed, whatever else is revealed; else red when no red card is hidden;
\* else blue when no blue card is hidden; else no winner.  The cards it was
\* given are as they were.
C16_GetWinner ==
  last.type = "getWinner" =>
    LET cards == gameState.cards
        hidden(t) == \E i \in DOMAIN cards :
                       cards[i].type = t /\ ~cards[i].revealed
        assassin == \E i \in DOMAIN cards :
                      cards[i].type = "assassin" /\ cards[i].revealed
        turn == gameState.currentTurn
    IN /\ assassin => gameState.winner # turn /\ gameState.winner # Null
       /\ (~assassin /\ ~hidden("red")) => gameState.winner = "red"
       /\ (~assassin /\ hidden("red") /\ ~hidden("blue"))
            => gameState.winner = "blue"
       /\ (~assassin /\ hidden("red") /\ hidden("blue"))
            => gameState.winner = Null
       /\ gameState.winner \in {"red", "blue", Null}
       /\ cards = gameStateRef.cards

\* The assassin is revealed and so is every red card, in red's turn.
C16_Witness ==
  /\ last.type = "getWinner"
  /\ gameState.currentTurn = "red"
  /\ \E i \in DOMAIN gameState.cards :
       gameState.cards[i].type = "assassin" /\ gameState.cards[i].revealed
  /\ \E i \in DOMAIN gameState.cards : gameState.cards[i].type = "red"
  /\ \A i \in DOMAIN gameState.cards :
       gameState.cards[i].type = "red" => gameState.cards[i].revealed
  /\ gameState.winner = "blue"

Opponent(t) == IF t = "red" THEN "blue" ELSE "red"

Hidden(cards, t) ==
  {i \in DOMAIN cards : cards[i].type = t /\ ~cards[i].revealed}

\* The host has handled a reveal and accepted it.
RevealStep == last' = [type |-> "ACTION_REVEAL", bcast |-> TRUE]

\* The host handles the reveal of card i of type t by p, an operative of
\* the team in turn, while that team is guessing.
RevealOf(e, p, i, t) ==
  /\ gameStateRef.status = "playing"
  /\ gameStateRef.turnPhase = "guessing"
  /\ OperativeOfTurn(p)
  /\ i < Len(gameStateRef.cards)
  /\ gameStateRef.cards[i + 1].type = t
  /\ Receive(e, RevealMsg(i), p, 1)

\* The turn has passed from team t: the other team is hinting.
TurnPassedFrom(t) ==
  /\ gameState'.currentTurn = Opponent(t)
  /\ gameState'.turnPhase = "hinting"
  /\ gameState'.currentHint = <<>>
  /\ gameState'.guessesMade = 0

\* C17: an accepted reveal of the assassin by an operative of team T ends
\* the game in that step: the other team is the winner and the status is its
\* win, however many cards the teams have left.
C17_AssassinEndsGame ==
  [][RevealStep => \A p \in PeerIds : \A i \in 0 .. (GRID_SIZE - 1) :
       RevealOf(Table, p, i, "assassin")
       => /\ gameState'.winner = Opponent(gameStateRef.currentTurn)
          /\ gameState'.status =
               (IF gameStateRef.currentTurn = "red" THEN "blue_win"
                ELSE "red_win")]_vars

\* The assassin was revealed after each team had cards revealed.
C17_Witness ==
  /\ last = [type |-> "ACTION_REVEAL", bcast |-> TRUE]
  /\ gameState.status \in {"red_win", "blue_win"}
  /\ \E i \in DOMAIN gameState.cards :
       gameState.cards[i].type = "assassin" /\ gameState.cards[i].revealed
  /\ Cardinality(Hidden(gameState.cards, "red")) < SecondTeamCards
  /\ Cardinality(Hidden(gameState.cards, "blue")) < SecondTeamCards

\* C18: an accepted reveal of a neutral card passes the turn, and the game
\* stays in status playing without a winner.
C18_NeutralPassesTurn ==
  [][RevealStep => \A p \in PeerIds : \A i \in 0 .. (GRID_SIZE - 1) :
       RevealOf(Rough, p, i, "neutral")
       => /\ TurnPassedFrom(gameStateRef.currentTurn)
          /\ gameState'.status = "playing"
          /\ gameState'.winner = Null]_vars

\* A neutral card was revealed after the team had counted a guess.
C18_Witness ==
  /\ last = [type |-> "ACTION_REVEAL", bcast |-> TRUE]
  /\ gameStateRef.status = "playing"
  /\ gameStateRef.turnPhase = "guessing"
  /\ gameStateRef.guessesMade > 0
  /\ gameState.currentTurn # gameStateRef.currentTurn
  /\ \E i \in DOMAIN gameState.cards :
       /\ gameState.cards[i].type = "neutral"
       /\ gameState.cards[i].revealed
       /\ ~gameStateRef.cards[i].revealed

TurnUnchanged ==
  /\ gameState'.currentTurn = gameState.currentTurn
  /\ gameState'.turnPhase = gameState.turnPhase
  /\ gameState'.currentHint = gameState.currentHint
  /\ gameState'.guessesMade = gameState.guessesMade

PlayerOfTurn(p) ==
  \E i \in DOMAIN playersRef :
    /\ playersRef[i].id = p
    /\ playersRef[i].team = gameStateRef.currentTurn

SpymasterOfTurn(p) ==
  \E i \in DOMAIN playersRef :
    /\ playersRef[i].id = p
    /\ playersRef[i].team = gameStateRef.currentTurn
    /\ playersRef[i].role = "spymaster"

OfType(cards, t) == {i \in DOMAIN cards : cards[i].type = t}

\* C26: right after every ACTION_START_GAME the host handles, the status is
\* playing with no winner, the phase is hinting with no hint and no guess
\* counted, the turn is the starting team's, and the board has GRID_SIZE
\* unrevealed cards: 9 of the starting team, 8 of the other team, 1 assassin
\* and 7 neutral.
C26_StartGameState ==
  [][last'.type = "ACTION_START_GAME" =>
       LET gs == gameState'
       IN /\ last'.bcast
          /\ gs.status = "playing"
          /\ gs.winner = Null
          /\ gs.turnPhase = "hinting"
          /\ gs.currentHint = <<>>
          /\ gs.guessesMade = 0
          /\ gs.startingTeam \in {"red", "blue"}
          /\ gs.currentTurn = gs.startingTeam
          /\ Len(gs.cards) = GRID_SIZE
          /\ \A i \in DOMAIN gs.cards : ~gs.cards[i].revealed
          /\ Cardinality(OfType(gs.cards, gs.startingTeam))
               = StartingTeamCards
          /\ Cardinality(OfType(gs.cards, Opponent(gs.startingTeam)))
               = SecondTeamCards
          /\ Cardinality(OfType(gs.cards, "assassin")) = AssassinCards
          /\ Cardinality(OfType(gs.cards, "neutral")) = NeutralCards]_vars

\* A game that blue starts was started over a game that was on.
C26_Witness ==
  /\ last = [type |-> "ACTION_START_GAME", bcast |-> TRUE]
  /\ gameStateRef.status # "lobby"
  /\ \E i \in DOMAIN gameStateRef.cards : gameStateRef.cards[i].revealed
  /\ gameState.status = "playing"
  /\ gameState.startingTeam = "blue"
  /\ gameState.currentTurn = "blue"

\* C27: a board that generateBoard produced has no word twice, whatever
\* word list it was run on.
C27_NoWordTwice ==
  last.type = "generateBoard" =>
    \A i, j \in DOMAIN gameState.cards :
      i # j => gameState.cards[i].word # gameState.cards[j].word

\* The host has handled a JOIN_REQUEST.
JoinStep == last'.type = "JOIN_REQUEST"

\* Every followed connection was sent the roster and then the state.
Synced(ps, gs) ==
  \A d \in connections \cap Net.tracked :
    chan'[d] = chan[d] \o <<[type |-> "SYNC_PLAYERS", payload |-> ps],
                            [type |-> "SYNC_STATE", payload |-> gs]>>

CloseStep(c) ==
  /\ last'.type = "close"
  /\ c \in connections
  /\ connections' = connections \ {c}

C33_ReplicaOnlySynced ==
  [][\A c \in ClientIds :
       /\ (cPlayers'[c] # cPlayers[c] \/ cGameState'[c] # cGameState[c])
            => /\ c \in connections
               /\ chan[c] # <<>>
               /\ chan'[c] = Tail(chan[c])
               /\ Head(chan[c]).type \in {"SYNC_PLAYERS", "SYNC_STATE"}
               /\ Head(chan[c]).type = "SYNC_PLAYERS"
                    => /\ cPlayers'[c] = Head(chan[c]).payload
                       /\ cGameState'[c] = cGameState[c]
               /\ Head(chan[c]).type = "SYNC_STATE"
                    => /\ cGameState'[c] = Head(chan[c]).payload
                       /\ cPlayers'[c] = cPlayers[c]
       /\ \A msg \in ClientMsgs :
            clientMessage(msg, cPlayers[c], cGameState[c])
              = [players |-> cPlayers[c], state |-> cGameState[c]]]_vars

\* The replica of a client follows a game that is on: it took a roster in
\* place of the one it had and then the state of the game.
C33_Witness ==
  \E c \in connections :
    /\ chan[c] = <<>>
    /\ cGameState[c].status = "playing"
    /\ cGameState[c] = gameState
    /\ cPlayers[c] = players
    /\ Len(cPlayers[c]) = 2

\* The GameState of a lobby in which no game has been played.
LobbyInitial(gs) ==
  /\ gs.status = "lobby"
  /\ gs.cards = <<>>
  /\ gs.winner = Null
  /\ gs.turnPhase = "hinting"
  /\ gs.currentHint = <<>>
  /\ gs.guessesMade = 0

\* C34: in every reachable state the host's handler accepts the host's own
\* ACTION_RESET and its result is the lobby-initial GameState with the roster
\* as it is; whenever a game is on or over on the host's screen the host can
\* send it; and every reset the host sends leaves the lobby-initial
\* GameState and the roster, every team and role, as they were.
C34_HostReset ==
  /\ [](LET r == sendAction(ResetMsg, 1)
        IN /\ r.bcast
           /\ r.setState
           /\ LobbyInitial(r.state)
           /\ r.players = playersRef
           /\ ~r.setPlayers)
  /\ []((Rendered /\ gameState.status # "lobby")
         => CanSend(Host, ResetMsg))
  /\ [][Receive(Rough, ResetMsg, Host, 1)
        => /\ LobbyInitial(gameState')
           /\ players' = players]_vars

\* A reset was handled: the lobby is as new, and the teams keep their
\* spymasters.
C34_Witness ==
  /\ last = [type |-> "ACTION_RESET", bcast |-> TRUE]
  /\ LobbyInitial(gameState)
  /\ Spymasters(players, "red") # {}
  /\ Spymasters(players, "blue") # {}

\* C35: in every reachable state of the host with status playing the win
\* evaluator finds no winner: no assassin is revealed, a red card is hidden
\* and a blue card is hidden.
C35_PlayingHasNoWinner ==
  gameState.status = "playing" =>
    /\ getWinner(gameState.cards, gameState.currentTurn) = Null
    /\ \A i \in DOMAIN gameState.cards :
         gameState.cards[i].type = "assassin" => ~gameState.cards[i].revealed
    /\ Hidden(gameState.cards, "red") # {}
    /\ Hidden(gameState.cards, "blue") # {}

\* A game is on in which each team has one card left to find.
C35_Witness ==
  /\ gameState.status = "playing"
  /\ Cardinality(Hidden(gameState.cards, "red")) = 1
  /\ Cardinality(Hidden(gameState.cards, "blue")) = 1

\* The actions of a game and of the lobby's seats, with the payloads the
\* peers of the rough table send.
SeatAndGameMsgs ==
  {EndTurnMsg}
  \cup {RevealMsg(i) : i \in AnyClicks(gameStateRef.cards)}
  \cup {HintMsg(w, n) : w \in HintWords, n \in Rough.counts}
  \cup {TeamMsg(t) : t \in {"red", "blue"}}
  \cup {RoleMsg(tr[1], tr[2]) : tr \in AllRoles}

HostEntries(ps) == {i \in DOMAIN ps : ps[i].isHost}

\* Roster ps has one host entry, the host's own, and no id twice.
OneHostNoTwins(ps) ==
  /\ Cardinality(HostEntries(ps)) = 1
  /\ \A i \in HostEntries(ps) : ps[i].id = Host
  /\ \A i, j \in DOMAIN ps : ps[i].id = ps[j].id => i = j

\* C38: from the creation of the room on, the host's roster holds exactly
\* one entry with isHost = TRUE, the host's own, which no join, team or role
\* change or disconnect removes or doubles, and no two entries of the roster
\* share an id.  It is stated of the roster and of the copy the handlers
\* read.
C38_OneHostUniqueIds ==
  OneHostNoTwins(players) /\ OneHostNoTwins(playersRef)

\* A client left and the rest were told, while another player, seated in a
\* team, stays in the roster beside the host.
C38_Witness ==
  /\ last = [type |-> "close", bcast |-> TRUE]
  /\ Len(players) = 2
  /\ \E i \in DOMAIN players : players[i].team \in {"red", "blue"}
  /\ OneHostNoTwins(players)

\* The players of roster ps that are still in roster qs have the team and
\* the role they had.
SeatsKept(ps, qs) ==
  \A i \in DOMAIN ps : \A j \in DOMAIN qs :
    ps[i].id = qs[j].id
    => qs[j].team = ps[i].team /\ qs[j].role = ps[i].role

\* The entries of roster qs whose id is not in roster ps are new players
\* without a seat: spectators with the role operative.
NewcomersUnseated(ps, qs) ==
  \A j \in DOMAIN qs :
    (\A i \in DOMAIN ps : ps[i].id # qs[j].id)
    => qs[j].team = "spectator" /\ qs[j].role = "operative"

\* C39: while the status is not lobby no player of the roster changes team
\* or role: a step taken during a game leaves every player that stays in
\* the roster with its team and role, and a player it adds is a spectator
\* with the role operative; and a hint, reveal or end of turn sent by a
\* spectator leaves the GameState as it is.
C39_SeatsFrozenInGame ==
  [][gameState.status # "lobby"
     => /\ SeatsKept(players, players')
        /\ NewcomersUnseated(players, players')
        /\ \A p \in PeerIds :
             \A msg \in {EndTurnMsg}
                        \cup {RevealMsg(i) :
                                i \in AnyClicks(gameStateRef.cards)}
                        \cup {HintMsg(w, n) :
                                w \in HintWords, n \in Hostile.counts} :
               (/\ Receive(Hostile, msg, p, 1)
                /\ \E i \in DOMAIN players :
                     players[i].id = p /\ players[i].team = "spectator")
               => gameState' = gameState]_vars

\* Team t has a spymaster and an operative in roster ps.
Staffed(ps, t) ==
  /\ \E i \in DOMAIN ps : ps[i].team = t /\ ps[i].role = "spymaster"
  /\ \E i \in DOMAIN ps : ps[i].team = t /\ ps[i].role = "operative"

\* What the host's handler answers to msg of peer p.
Answer(msg, p) ==
  IF p = Host THEN sendAction(msg, 1)
  ELSE connData(Sent(Hostile, msg, p), p, 1)

\* The moves of a phase: a hint while hinting; the reveal of an unrevealed
\* card or the end of the turn while guessing.
MovesOf(gs) ==
  IF gs.turnPhase = "hinting"
    THEN {HintMsg(w, n) : w \in HintWords, n \in 1 .. MaxHintCount}
    ELSE {EndTurnMsg}
         \cup {RevealMsg(i - 1) :
                 i \in {j \in DOMAIN gs.cards : ~gs.cards[j].revealed}}

\* C40: the game is never stuck while the team in turn is staffed: whenever
\* the status is playing and the team named by currentTurn has a spymaster
\* and an operative in the roster, some player of the roster has a move of
\* the phase (one it can send) that the host accepts and that changes the
\* GameState.  It is stated of the states the host has rendered, where the
\* handlers read the host's state.
C40_NeverStuck ==
  (/\ Rendered
   /\ gameState.status = "playing"
   /\ Staffed(players, gameState.currentTurn))
  => \E i \in DOMAIN players : \E msg \in MovesOf(gameState) :
       LET r == Answer(msg, players[i].id)
       IN /\ CanSend(players[i].id, msg)
          /\ r.bcast /\ r.setState /\ r.state # gameState

====
